---- MODULE Spec2Model ----
(***************************************************************************)
(* A model of tools.py: the Preprocessing class (dropPoorFeatures,         *)
(* imputeKNN, exportCSV) and the                                           *)
(* Clustering class (getPC, clustersTable and the clustering methods that  *)
(* fill self.clusterings).  The numeric libraries (scikit-learn, scipy,    *)
(* fastcluster, hdbscan) are modelled by what they hand back to tools.py:  *)
(* a label per entity, a score, or an exception.                           *)
(***************************************************************************)
EXTENDS Integers, Sequences, FiniteSets, TLC

VARIABLES
    prep_df,        \* Preprocessing.self.df: [index, columns, null, float64]
    prep_ret,       \* the last Preprocessing call: arguments, table before, result
    prep_names,     \* Preprocessing.self.country_names, or Unset before imputeKNN
    country_names,  \* Clustering.self.country_names
    labels_arg,     \* the label array handed to clustersTable
    table,          \* the value clustersTable returned
    df_pc,          \* Clustering.self.df_pc, or Unset before getPC
    clusterings,    \* Clustering.self.clusterings: run name -> groups table
    min_BIC,        \* Clustering.self.min_BIC, or Unset before gmBIC
    call,           \* the last method called on the session, with its arguments
    outcome,        \* how that call ended: "ok" or the exception it raised
    df_used,        \* the feature space (local df) that call selected
    before,         \* self.clusterings as it was when that call started
    n_calls         \* number of calls made in the session

vars == <<prep_df, prep_ret, prep_names, country_names, labels_arg, table, df_pc, clusterings,
          min_BIC, call, outcome, df_used, before, n_calls>>

prep_vars == <<prep_df, prep_ret, prep_names>>
table_vars == <<labels_arg, table>>
session_vars == <<df_pc, clusterings, min_BIC, call, outcome, df_used, before, n_calls>>

\* ------------------------------------------------------------------ bounds
MaxRows == 2
TallRows == 90
MaxFeatures == 2
MaxLabel == 2
MaxOnPC == 3
MaxK == 3
MaxCalls == 2

\* ------------------------------------------------------------------ helpers
\* an attribute not yet assigned is the empty sequence, an assigned one <<value>>
Unset == <<>>
Some(v) == <<v>>
NoCall == [name |-> "none"]

Min(a, b) == IF a < b THEN a ELSE b

Range(s) == {s[i] : i \in 1..Len(s)}

Take(s, n) == SubSeq(s, 1, Min(n, Len(s)))

RECURSIVE SeqOfSet(_)
\* some enumeration of a finite set of integers, ascending
SeqOfSet(S) ==
    IF S = {} THEN <<>>
    ELSE LET m == CHOOSE x \in S : \A y \in S : x <= y
         IN <<m>> \o SeqOfSet(S \ {m})

\* ------------------------------------------------------------------ clustersTable
\* zip(clustering, self.country_names): pairs up to the shorter length
Zip(a, b) == [i \in 1..Min(Len(a), Len(b)) |-> <<a[i], b[i]>>]

RECURSIVE InsertByKey(_, _)
\* x placed after every element whose key is <= its own: a stable insertion
InsertByKey(s, x) ==
    IF s = <<>> THEN <<x>>
    ELSE IF s[Len(s)][1] <= x[1] THEN Append(s, x)
    ELSE Append(InsertByKey(SubSeq(s, 1, Len(s) - 1), x), s[Len(s)])

RECURSIVE SortedByKey(_)
\* sorted(pairs, key=lambda x: x[0]): Python's sort is stable
SortedByKey(s) ==
    IF s = <<>> THEN <<>>
    ELSE InsertByKey(SortedByKey(SubSeq(s, 1, Len(s) - 1)), s[Len(s)])

\* hash() of a Python / numpy integer of small magnitude: hash(-1) is -2
PyHash(l) == IF l = -1 THEN -2 ELSE l

\* the slot of an integer in a CPython set of fewer than five elements
\* (the table has 8 slots); the labels modelled never collide
SetSlot(l) == PyHash(l) % 8

RECURSIVE SetIterFrom(_, _)
SetIterFrom(S, slot) ==
    IF slot > 7 THEN <<>>
    ELSE LET here == {l \in S : SetSlot(l) = slot}
         IN SeqOfSet(here) \o SetIterFrom(S, slot + 1)

\* iteration over set(labels): CPython walks the hash table slot by slot
SetIter(S) == SetIterFrom(S, 0)

\* the names of lis carrying a label up to x
MembersOf_upto(lis, x) ==
    LET sel == SelectSeq(lis, LAMBDA y : y[1] <= x)
    IN [i \in 1..Len(sel) |-> sel[i][2]]

\* [y[1] for y in lis if y[0] == x]: the names of lis carrying label x, in the
\* order of lis
MembersOf(lis, x) ==
    LET sel == SelectSeq(lis, LAMBDA y : y[1] = x)
    IN [i \in 1..Len(sel) |-> sel[i][2]]

\* Clustering.clustersTable: one row (Cluster, members) per element of groups
TableRows(names, clustering) ==
    LET lis == SortedByKey(Zip(clustering, names))
        groups == SetIter({lis[i][1] : i \in 1..Len(lis)})
    IN [g \in 1..Len(groups) |->
            [Cluster |-> groups[g], members |-> MembersOf(lis, groups[g])]]

clustersTable(clustering) == TableRows(country_names, clustering)


\* ------------------------------------------------------------------ idle parts
\* each specification below drives one part of the program and pins the others
NoTable == [index |-> <<>>, columns |-> <<>>, null |-> {}, float64 |-> {}]
NoEntries == [n \in {} |-> <<>>]

PrepIdle == prep_df = NoTable /\ prep_ret = Unset /\ prep_names = Unset
TableIdle == labels_arg = <<>> /\ table = Unset
SessionIdle ==
    /\ df_pc = Unset /\ clusterings = NoEntries /\ min_BIC = Unset
    /\ call = NoCall /\ outcome = "none" /\ df_used = Unset
    /\ before = NoEntries /\ n_calls = 0

\* ------------------------------------------------------------------ SpecTable
\* clustersTable as a function of its inputs: every label array over the entities
Labels == -1..MaxLabel

NameChoices == {<<"Aruba", "Benin", "Chile">>, <<"Congo", "Congo", "Chile">>}

InitTable ==
    /\ country_names \in NameChoices
    /\ labels_arg \in [1..Len(country_names) -> Labels]
    /\ table = Unset
    /\ PrepIdle /\ SessionIdle

CallClustersTable ==
    /\ table = Unset
    /\ table' = Some(clustersTable(labels_arg))
    /\ UNCHANGED <<labels_arg, country_names, prep_vars, session_vars>>

NextTable == CallClustersTable

SpecTable == InitTable /\ [][NextTable]_vars

\* ------------------------------------------------------------------ Preprocessing
\* the tables a session can load: Country Code index, a Country Name column and
\* numeric columns; any cell may be missing
RowLabels(n) == [i \in 1..n |-> "c" \o ToString(i)]
ColumnLabels(n) == <<"Country Name">> \o [i \in 1..n |-> "x" \o ToString(i)]

\* thresholds 0 <= p <= 1 as the caller writes them, <<n, d>> for the Python
\* float n/d (0.7 is <<7, 10>>)
Thresholds == {<<0, 1>>, <<1, 3>>, <<1, 2>>, <<2, 3>>, <<7, 10>>, <<1, 1>>}

\* --- binary64 arithmetic: the float p and the product p*length as Python
\* computes them.  A positive float is [m, z]: the integer m over
\* 2^(MantissaBits + z), m written in base 2^LimbBits.
MantissaBits == 53
LimbBits == 18
\* a significand is kept as three base-2^18 digits, most significant first
Limb == 2 ^ LimbBits

\* carry the digits of <<a, b, c>> back below Limb (the first digit takes the rest)
Normalize(m) ==
    LET b1 == m[2] + m[3] \div Limb
    IN <<m[1] + b1 \div Limb, b1 % Limb, m[3] % Limb>>

\* how many binary digits a >= 1 has
BitLen(a) == Cardinality({k \in 0..30 : 2 ^ k <= a})

RECURSIVE LeadingZeros(_, _)
\* the zeros between the point and the first 1 of r/d in binary, 0 < r < d
LeadingZeros(r, d) == IF 2 * r >= d THEN 0 ELSE 1 + LeadingZeros(2 * r, d)

\* the float nearest to n/d for 0 < n < d, round to nearest, ties to even:
\* its value is m / 2^(MantissaBits + z)
FloatOf(p) ==
    LET d == p[2]
        z == LeadingZeros(p[1], d)
        n1 == p[1] * 2 ^ z * Limb
        n2 == (n1 % d) * Limb
        n3 == (n2 % d) * Limb
        q1 == n1 \div d
        q2 == n2 \div d
        q3 == n3 \div d
        \* q1 q2 q3 are the first MantissaBits + 1 digits; the last one is the guard
        sticky == n3 % d # 0
        up == q3 % 2 = 1 /\ (sticky \/ (q3 \div 2) % 2 = 1)
        half == Limb \div 2
    IN [m |-> Normalize(<<q1 \div 2,
                          q2 \div 2 + (q1 % 2) * half,
                          q3 \div 2 + (q2 % 2) * half + (IF up THEN 1 ELSE 0)>>),
        z |-> z]

\* f * n for an integer n >= 1: the exact product rounded to MantissaBits digits
FloatTimes(f, n) ==
    LET prod == Normalize(<<f.m[1] * n, f.m[2] * n, f.m[3] * n>>)
        extra == BitLen(prod[1]) + 2 * LimbBits - MantissaBits
        unit == 2 ^ extra
        lost == prod[3] % unit
        up == extra > 0 /\ (2 * lost > unit
                              \/ (2 * lost = unit /\ (prod[3] \div unit) % 2 = 1))
    IN [m |-> Normalize(<<prod[1], prod[2],
                          prod[3] - lost + (IF up THEN unit ELSE 0)>>),
        z |-> f.z]

\* the integer part of a float
FloorOf(f) == f.m[1] \div 2 ^ (MantissaBits + f.z - 2 * LimbBits)

\* the thresholds strictly between 0 and 1, as floats
Floats == [p \in {q \in Thresholds : 0 < q[1] /\ q[1] < q[2]} |-> FloatOf(p)]

\* the integer part of the float p*length; 0.0 and 1.0 multiply exactly
FloorOfProduct(p, length) ==
    IF p[1] = 0 \/ length = 0 THEN 0
    ELSE IF p[1] = p[2] THEN length
    ELSE FloorOf(FloatTimes(Floats[p], length))

Max(a, b) == IF a > b THEN a ELSE b
MaxLength == Max(TallRows, Max(MaxRows, MaxFeatures + 1))

\* p*length for every threshold and length a call can meet
ProductFloors == [p \in Thresholds |-> [n \in 0..MaxLength |-> FloorOfProduct(p, n)]]

\* self.df.isnull().sum(axis=int(not axis)): missing entries per row (axis 0)
\* or per column (axis 1)
MissingCount(df, axis, label) ==
    IF axis = 0
    THEN Cardinality({c \in Range(df.columns) : <<label, c>> \in df.null})
    ELSE Cardinality({r \in Range(df.index) : <<r, label>> \in df.null})

AxisLabels(df, axis) == IF axis = 0 THEN df.index ELSE df.columns

\* length = len(self.df.columns) if axis == 0 else len(self.df)
AxisLength(df, axis) == IF axis = 0 THEN Len(df.columns) ELSE Len(df.index)

\* missing_df[0] > p*length: an integer count exceeds the float p*length exactly
\* when it exceeds its integer part
IsPoor(df, axis, p, label) ==
    MissingCount(df, axis, label) > ProductFloors[p][AxisLength(df, axis)]

PoorFeatures(df, axis, p) ==
    SelectSeq(AxisLabels(df, axis), LAMBDA l : IsPoor(df, axis, p, l))

\* self.df.drop(poor_features, axis=axis, inplace=True)
Drop(df, poor, axis) ==
    LET gone == Range(poor)
        keep(s) == SelectSeq(s, LAMBDA l : l \notin gone)
    IN IF axis = 0
       THEN [index |-> keep(df.index), columns |-> df.columns,
             null |-> {x \in df.null : x[1] \notin gone}, float64 |-> df.float64]
       ELSE [index |-> df.index, columns |-> keep(df.columns),
             null |-> {x \in df.null : x[2] \notin gone},
             float64 |-> df.float64 \ gone]

\* the dtypes read_csv and pd.to_numeric leave: the converted columns are
\* float64 (their observed values are taken to be non-integral), and so is a
\* Country Name column with every cell empty; a Country Name column holding a
\* name is object
LoadedFloat64(index, columns, null) ==
    {c \in Range(columns) :
        c # "Country Name" \/ \A r \in Range(index) : <<r, c>> \in null}

Loaded(index, columns, null) ==
    [index |-> index, columns |-> columns, null |-> null,
     float64 |-> LoadedFloat64(index, columns, null)]

\* small tables with any cell missing, and tall two-column tables whose numeric
\* column is missing in the first k rows
SmallTables ==
    UNION {{Loaded(RowLabels(nr), ColumnLabels(nf), m) :
              m \in SUBSET (Range(RowLabels(nr)) \X Range(ColumnLabels(nf)))} :
           <<nr, nf>> \in (1..MaxRows) \X (1..MaxFeatures)}

TallTables ==
    {Loaded(RowLabels(TallRows), ColumnLabels(1),
            {<<RowLabels(TallRows)[i], "x1">> : i \in 1..k}) : k \in 0..TallRows}

InitPrep ==
    /\ prep_df \in SmallTables \cup TallTables
    /\ prep_ret = Unset
    /\ prep_names = Unset
    /\ country_names = <<>>
    /\ TableIdle /\ SessionIdle

dropPoorFeatures(axis, p) ==
    LET poor == PoorFeatures(prep_df, axis, p)
    IN /\ prep_df' = Drop(prep_df, poor, axis)
       /\ prep_ret' = Some([name |-> "dropPoorFeatures", axis |-> axis, p |-> p,
                              before |-> prep_df, poor_features |-> poor])
       /\ UNCHANGED <<prep_names, country_names, table_vars, session_vars>>

\* self.df['Country Name'].as_matrix(): one name per row, Unset where missing
NameColumn(df) ==
    [i \in 1..Len(df.index) |->
        IF <<df.index[i], "Country Name">> \in df.null THEN Unset ELSE Some(df.index[i])]

\* self.df.select_dtypes(include=[np.float64])
NumericColumns(df) == SelectSeq(df.columns, LAMBDA c : c \in df.float64)
NumericCells(df) == Range(df.index) \X Range(NumericColumns(df))

\* the cells KNN(2).complete can fill from another row: a missing cell whose
\* column has an observed value
Fillable(df) ==
    {x \in df.null \cap NumericCells(df) :
        \E r \in Range(df.index) : <<r, x[2]>> \notin df.null}

\* KNN(2).complete(df_numeric): "ValueError" or the set of cells it fills.  It
\* raises on a matrix with no observed value (an empty one included); on a
\* matrix with nothing missing it raises or warns, depending on the library
\* version; a missing cell whose column is nowhere observed is filled or left,
\* depending on the version
KNNOutcomes(df) ==
    LET missing == df.null \cap NumericCells(df)
    IN IF NumericCells(df) \subseteq df.null THEN {<<"ValueError">>}
       ELSE IF missing = {} THEN {<<"ValueError">>, <<"ok", {}>>}
       ELSE {<<"ok", Fillable(df)>>, <<"ok", missing>>}

\* the frame imputeKNN builds: the filled float64 columns with the names put
\* back in front, columns and index as in self.df
FilledFrame(df, filled) ==
    [index |-> df.index, columns |-> df.columns, null |-> df.null \ filled,
     float64 |-> Range(NumericColumns(df))]

\* lines 84-91 on a table that has the Country Name column: the frame returned,
\* or ValueError from KNN or from df_filled_KNN.columns = self.df.columns when
\* the float64 columns plus the names column are not as many as the labels
ImputeOutcomes(df) ==
    {IF knn[1] = "ok" /\ Len(NumericColumns(df)) + 1 = Len(df.columns)
     THEN <<"ok", FilledFrame(df, knn[2])>>
     ELSE <<"ValueError">> : knn \in KNNOutcomes(df)}

\* imputeKNN(): sets self.country_names, leaves self.df alone, returns the frame
imputeKNN ==
    /\ \/ /\ "Country Name" \notin Range(prep_df.columns)
          /\ prep_ret' = Some([name |-> "imputeKNN", before |-> prep_df,
                               outcome |-> "KeyError", returned |-> Unset])
          /\ UNCHANGED prep_names
       \/ /\ "Country Name" \in Range(prep_df.columns)
          /\ prep_names' = Some(NameColumn(prep_df))
          /\ \E o \in ImputeOutcomes(prep_df) :
                prep_ret' = Some([name |-> "imputeKNN", before |-> prep_df,
                                  outcome |-> o[1],
                                  returned |-> IF o[1] = "ok" THEN Some(o[2]) ELSE Unset])
    /\ UNCHANGED <<prep_df, country_names, table_vars, session_vars>>

\* the paths a caller hands to exportCSV: one that can be written, one whose
\* directory does not exist
Paths == {"clean.csv", "no_such_dir/clean.csv"}
Writable(path) == path = "clean.csv"

\* what exportCSV leaves once self.df (df) is handed to to_csv(path)
Written(path, impute, df) ==
    Some([name |-> "exportCSV", path |-> path, impute |-> impute, before |-> prep_df,
          outcome |-> IF Writable(path) THEN "ok" ELSE "OSError",
          to_csv |-> IF Writable(path) THEN Some(df) ELSE Unset])

\* what exportCSV leaves when imputeKNN raised
NotWritten(path, impute, error) ==
    Some([name |-> "exportCSV", path |-> path, impute |-> impute, before |-> prep_df,
          outcome |-> error, to_csv |-> Unset])

\* exportCSV(path, impute): writes self.df; with impute=True self.df is first
\* replaced by imputeKNN()
exportCSV(path, impute) ==
    /\ \/ /\ ~impute
          /\ prep_ret' = Written(path, impute, prep_df)
          /\ UNCHANGED <<prep_df, prep_names>>
       \/ /\ impute
          /\ "Country Name" \notin Range(prep_df.columns)
          /\ prep_ret' = NotWritten(path, impute, "KeyError")
          /\ UNCHANGED <<prep_df, prep_names>>
       \/ /\ impute
          /\ "Country Name" \in Range(prep_df.columns)
          /\ prep_names' = Some(NameColumn(prep_df))
          /\ \E o \in ImputeOutcomes(prep_df) :
                IF o[1] = "ok"
                THEN /\ prep_df' = o[2]
                     /\ prep_ret' = Written(path, impute, o[2])
                ELSE /\ prep_df' = prep_df
                     /\ prep_ret' = NotWritten(path, impute, o[1])
    /\ UNCHANGED <<country_names, table_vars, session_vars>>

NextPrep ==
    \/ \E axis \in {0, 1}, p \in Thresholds : dropPoorFeatures(axis, p)
    \/ imputeKNN
    \/ \E path \in Paths, impute \in BOOLEAN : exportCSV(path, impute)

SpecPrep == InitPrep /\ [][NextPrep]_vars


\* ------------------------------------------------------------------ Clustering session
\* the cleaned table the session was built from: three entities, three features
SessionIndex == <<"ABW", "BEN", "CHL">>
SessionNames == <<"Aruba", "Benin", "Chile">>
FeatureNames == <<"gdp", "pop", "life">>
NEntities == Len(SessionIndex)

\* Clustering.__init__: self.df is the standardized table, same columns and index
self_df == [kind |-> "df", columns |-> FeatureNames, index |-> SessionIndex]

\* PCA() keeps min(n_samples, n_features) components; the scores table has the
\* default integer columns 0, 1, ... and the index of self.df
NComponents == Min(NEntities, Len(FeatureNames))
ScoresTable == [kind |-> "df_pc", columns |-> [i \in 1..NComponents |-> i - 1],
                index |-> self_df.index]

\* if on_PC > 0: df = self.df_pc.iloc[:, :on_PC+1]  else: df = self.df
SelectDf_k(on_PC) ==
    IF on_PC > 0
    THEN [df_pc[1] EXCEPT !.columns = Take(@, on_PC)]
    ELSE self_df

SelectDf(on_PC) ==
    IF on_PC > 0
    THEN [df_pc[1] EXCEPT !.columns = Take(@, on_PC + 1)]
    ELSE self_df

\* self.df_pc is read before getPC assigned it: Python raises AttributeError
NoScoresYet(on_PC) == on_PC > 0 /\ df_pc = Unset

\* self.clusterings[key] = val
Store(cl, key, val) ==
    [n \in (DOMAIN cl) \cup {key} |-> IF n = key THEN val ELSE cl[n]]

\* --- what the libraries hand back for the session's table
AllMethods == <<"average", "complete", "single", "weighted", "centroid", "median", "ward">>
Metrics == {"euclidean", "cosine"}

\* fastcluster.linkage: an unknown method name raises KeyError; otherwise the
\* linkage of that method over df
linkage(df, metric, met) ==
    IF met \in Range(AllMethods) /\ metric \in Metrics
    THEN Some([method |-> met, metric |-> metric, df |-> df])
    ELSE Unset

\* the height at which the linkage joins the last two clusters; the two closest
\* entities (the first two) are joined at height 1 by every method
TopHeight(links) == IF links.method = "single" THEN 2 ELSE 3

\* hierarchy.fcluster(links, threshold, criterion='distance'): labels from 1
fcluster(links, threshold) ==
    IF threshold >= TopHeight(links) THEN [i \in 1..NEntities |-> 1]
    ELSE IF threshold >= 1 THEN [i \in 1..NEntities |-> IF i <= 2 THEN 1 ELSE i - 1]
    ELSE [i \in 1..NEntities |-> i]

\* labels of a partition of the entities into k clusters, numbered from 0
KLabels(k) ==
    [i \in 1..NEntities |->
        IF k >= NEntities THEN i - 1
        ELSE IF i - 1 - (NEntities - k) > 0 THEN i - 1 - (NEntities - k) ELSE 0]

\* KMeans / GaussianMixture refuse a cluster count outside 1..n_samples
FitRaises(k) == k < 1 \/ k > NEntities

\* metrics.silhouette_score needs 2 <= number of labels <= n_samples - 1
ScoreRaises(labels) ==
    LET n == Cardinality(Range(labels))
    IN ~(1 < n /\ n < Len(labels))

\* HDBSCAN labels: the dense pair is cluster 0, the rest is noise (-1)
HdbscanLabels(min_cluster_size) ==
    [i \in 1..NEntities |-> IF min_cluster_size <= 2 /\ i <= 2 THEN 0 ELSE -1]

\* --- run names
HierName(met, metric) == "hierarchical_" \o met \o "_" \o metric
GmName_kmeans(n) == "kmeans" \o ToString(n)
GmName(n) == "gm" \o ToString(n)
BayesName(n) == "bayesian gm" \o ToString(n)
KmeansName(n) == "kmeans" \o ToString(n)

\* --- the end of a call: what it leaves in the session
Finish(c, out, cl, df, bic) ==
    /\ call' = c
    /\ outcome' = out
    /\ clusterings' = cl
    /\ df_used' = df
    /\ min_BIC' = bic
    /\ before' = clusterings
    /\ n_calls' = n_calls + 1
    /\ UNCHANGED <<df_pc, country_names, prep_vars, table_vars>>

InitSession ==
    /\ country_names = SessionNames
    /\ df_pc = Unset
    /\ clusterings = NoEntries
    /\ min_BIC = Unset
    /\ call = NoCall /\ outcome = "none" /\ df_used = Unset
    /\ before = NoEntries /\ n_calls = 0
    /\ PrepIdle /\ TableIdle

getPC ==
    /\ n_calls < MaxCalls
    /\ df_pc' = Some(ScoresTable)
    /\ call' = [name |-> "getPC"]
    /\ outcome' = "ok"
    /\ df_used' = Unset
    /\ before' = clusterings
    /\ n_calls' = n_calls + 1
    /\ UNCHANGED <<clusterings, min_BIC, country_names, prep_vars, table_vars>>

\* --- hierarchicalClustering
\* the method argument as Python sees it: a str, or a list of str
Str(x) == [list |-> FALSE, names |-> <<x>>]
List(xs) == [list |-> TRUE, names |-> xs]

\* if method == 'all': the seven methods; elif type(method) != list: [method]
MethodList(method) ==
    IF ~method.list /\ method.names[1] = "all" THEN AllMethods ELSE method.names

\* self.clustersTable(hierarchy.fcluster(links, threshold, criterion='distance'))
HierEntry_stale(links, threshold) ==
    clustersTable(fcluster([links EXCEPT !.method = "average"], threshold))

HierEntry(links, threshold) == clustersTable(fcluster(links, threshold))

RECURSIVE HierLoop(_, _, _, _, _, _)
\* for met in method: link, plot, store; an exception ends the loop where it is
HierLoop(cl, df, metric, mets, threshold, i) ==
    IF i > Len(mets) THEN [cl |-> cl, out |-> "ok"]
    ELSE LET links == linkage(df, metric, mets[i])
         IN IF links = Unset
            THEN [cl |-> cl,
                  out |-> IF metric \in Metrics THEN "KeyError" ELSE "ValueError"]
            ELSE HierLoop(Store(cl, HierName(mets[i], metric), HierEntry(links[1], threshold)),
                          df, metric, mets, threshold, i + 1)

hierarchicalClustering(metric, method, threshold, on_PC) ==
    LET c == [name |-> "hierarchicalClustering", metric |-> metric, method |-> method,
              threshold |-> threshold, on_PC |-> on_PC]
    IN /\ n_calls < MaxCalls
       /\ IF NoScoresYet(on_PC)
          THEN Finish(c, "AttributeError", clusterings, Unset, min_BIC)
          ELSE LET df == SelectDf(on_PC)
                   r == HierLoop(clusterings, df, metric, MethodList(method), threshold, 1)
               IN Finish(c, r.out, r.cl, Some(df), min_BIC)

\* --- hdbscan
hdbscan(min_cluster_size, on_PC) ==
    LET c == [name |-> "hdbscan", min_cluster_size |-> min_cluster_size, on_PC |-> on_PC]
    IN /\ n_calls < MaxCalls
       /\ IF NoScoresYet(on_PC)
          THEN Finish(c, "AttributeError", clusterings, Unset, min_BIC)
          ELSE Finish(c, "ok",
                      Store(clusterings, "hdbscan",
                            clustersTable(HdbscanLabels(min_cluster_size))),
                      Some(SelectDf(on_PC)), min_BIC)

\* --- gaussianMixture, bayesianGaussianMixture
\* the fit starts from random positions: any number j <= n of the n components
\* may end up holding entities
MixtureCall(c, key) ==
    /\ n_calls < MaxCalls
    /\ IF NoScoresYet(c.on_PC)
       THEN Finish(c, "AttributeError", clusterings, Unset, min_BIC)
       ELSE IF FitRaises(c.n_components)
       THEN Finish(c, "ValueError", clusterings, Some(SelectDf(c.on_PC)), min_BIC)
       ELSE \E j \in 1..c.n_components :
               Finish(c, "ok", Store(clusterings, key, clustersTable(KLabels(j))),
                      Some(SelectDf(c.on_PC)), min_BIC)

gaussianMixture(n_components, on_PC) ==
    MixtureCall([name |-> "gaussianMixture", n_components |-> n_components,
                 on_PC |-> on_PC],
                GmName(n_components))

bayesianGaussianMixture(n_components, on_PC) ==
    MixtureCall([name |-> "bayesianGaussianMixture", n_components |-> n_components,
                 on_PC |-> on_PC],
                BayesName(n_components))

\* --- gmBIC
BicValues == {-5, 7}

MinOf(bics) == CHOOSE v \in Range(bics) : \A w \in Range(bics) : v <= w

\* numpy argmin: the 0-based position of the first minimal element
ArgMin(bics) ==
    (CHOOSE i \in 1..Len(bics) :
        bics[i] = MinOf(bics) /\ \A j \in 1..(i - 1) : bics[j] # MinOf(bics)) - 1

\* self.min_BIC = [bics.argmin()+1, bics.min()]
MinBIC(n_min, bics) == <<ArgMin(bics) + 1, MinOf(bics)>>

gmBIC(n_min, n_max, on_PC) ==
    LET c == [name |-> "gmBIC", n_min |-> n_min, n_max |-> n_max, on_PC |-> on_PC,
              bics |-> <<>>]
    IN /\ n_calls < MaxCalls
       /\ IF NoScoresYet(on_PC)
          THEN Finish(c, "AttributeError", clusterings, Unset, min_BIC)
          ELSE IF (\E n \in n_min..(n_max - 1) : FitRaises(n)) \/ n_max <= n_min
          THEN Finish(c, "ValueError", clusterings, Some(SelectDf(on_PC)), min_BIC)
          ELSE \E bics \in [1..(n_max - n_min) -> BicValues] :
                  Finish([c EXCEPT !.bics = bics], "ok", clusterings,
                         Some(SelectDf(on_PC)), MinBIC(n_min, bics))

\* --- kmeans, multipleKmeans
kmeans(n_clusters, on_PC, evaluate) ==
    LET c == [name |-> "kmeans", n_clusters |-> n_clusters, on_PC |-> on_PC,
              evaluate |-> evaluate]
    IN /\ n_calls < MaxCalls
       /\ IF NoScoresYet(on_PC)
          THEN Finish(c, "AttributeError", clusterings, Unset, min_BIC)
          ELSE IF FitRaises(n_clusters)
          THEN Finish(c, "ValueError", clusterings, Some(SelectDf(on_PC)), min_BIC)
          ELSE LET labels == KLabels(n_clusters)
                   cl == Store(clusterings, KmeansName(n_clusters), clustersTable(labels))
               IN Finish(c, IF evaluate /\ ScoreRaises(labels) THEN "ValueError" ELSE "ok",
                         cl, Some(SelectDf(on_PC)), min_BIC)

RECURSIVE KmeansLoop(_, _, _)
\* for k in ks: fit, store, then score
KmeansLoop(cl, k, k_max) ==
    IF k >= k_max THEN [cl |-> cl, out |-> "ok"]
    ELSE IF FitRaises(k) THEN [cl |-> cl, out |-> "ValueError"]
    ELSE LET labels == KLabels(k)
             cl2 == Store(cl, KmeansName(k), clustersTable(labels))
         IN IF ScoreRaises(labels) THEN [cl |-> cl2, out |-> "ValueError"]
            ELSE KmeansLoop(cl2, k + 1, k_max)

multipleKmeans(k_min, k_max, on_PC) ==
    LET c == [name |-> "multipleKmeans", k_min |-> k_min, k_max |-> k_max,
              on_PC |-> on_PC]
    IN /\ n_calls < MaxCalls
       /\ IF NoScoresYet(on_PC)
          THEN Finish(c, "AttributeError", clusterings, Unset, min_BIC)
          ELSE IF k_max < k_min
          THEN Finish(c, "ValueError", clusterings, Some(SelectDf(on_PC)), min_BIC)
          ELSE LET r == KmeansLoop(clusterings, k_min, k_max)
               IN Finish(c, r.out, r.cl, Some(SelectDf(on_PC)), min_BIC)

\* --- the calls a session makes
OnPCs == 0..MaxOnPC
Counts == 0..MaxK
CutHeights == {0, 2}
MinClusterSizes == {2, 3}
MethodArgs == {Str("all"), Str("ward"), List(<<"single", "complete">>),
               List(<<"average", "bogus">>), List(<<"ward", "ward">>)}

NextSession ==
    \/ getPC
    \/ \E metric \in Metrics, method \in MethodArgs, threshold \in CutHeights, on_PC \in OnPCs :
          hierarchicalClustering(metric, method, threshold, on_PC)
    \/ \E m \in MinClusterSizes, on_PC \in OnPCs : hdbscan(m, on_PC)
    \/ \E n \in Counts, on_PC \in OnPCs : gaussianMixture(n, on_PC)
    \/ \E n \in Counts, on_PC \in OnPCs : bayesianGaussianMixture(n, on_PC)
    \/ \E n_min \in 1..MaxK, n_max \in 1..MaxK, on_PC \in OnPCs :
          n_min <= n_max /\ gmBIC(n_min, n_max, on_PC)
    \/ \E k \in Counts, on_PC \in OnPCs, evaluate \in BOOLEAN : kmeans(k, on_PC, evaluate)
    \/ \E k_min \in 1..MaxK, k_max \in 1..MaxK, on_PC \in OnPCs :
          k_min <= k_max /\ multipleKmeans(k_min, k_max, on_PC)

Spec == InitSession /\ [][NextSession]_vars

\* ------------------------------------------------------------------ claims: dropPoorFeatures
\* the last call's arguments and the table it was given
LastDrop == prep_ret[1]
Dropped == prep_ret # Unset /\ LastDrop.name = "dropPoorFeatures"

Missing(l) == MissingCount(LastDrop.before, LastDrop.axis, l)
Entries == AxisLength(LastDrop.before, LastDrop.axis)

\* the fraction Missing(l)/Entries compared with p = pn/pd, cross-multiplied
FractionAbove(l) == Missing(l) * LastDrop.p[2] > LastDrop.p[1] * Entries
FractionBelow(l) == Missing(l) * LastDrop.p[2] < LastDrop.p[1] * Entries

\* C3: dropPoorFeatures(axis, p) removes from the held table exactly the rows
\* (axis 0) or columns (axis 1) whose fraction of missing entries is strictly
\* greater than p and returns exactly those labels, leaving the other axis alone;
\* a label whose fraction is below p stays, and one whose fraction is 1 goes when
\* p < 1.
ClaimC3 ==
    Dropped =>
        LET old == LastDrop.before
            axis == LastDrop.axis
            labels == AxisLabels(old, axis)
            now == AxisLabels(prep_df, axis)
        IN /\ LastDrop.poor_features = SelectSeq(labels, LAMBDA l : FractionAbove(l))
           /\ now = SelectSeq(labels, LAMBDA l : ~FractionAbove(l))
           /\ AxisLabels(prep_df, 1 - axis) = AxisLabels(old, 1 - axis)
           /\ prep_df.null = {x \in old.null : x[1] \in Range(prep_df.index)
                                               /\ x[2] \in Range(prep_df.columns)}
           /\ \A l \in Range(labels) : FractionBelow(l) => l \in Range(now)
           /\ \A l \in Range(labels) :
                 (Entries > 0 /\ Missing(l) = Entries /\ LastDrop.p[1] < LastDrop.p[2])
                     => (l \notin Range(now) /\ l \in Range(LastDrop.poor_features))

\* a row of the table before the call whose numeric fields are all missing and
\* whose display name is present, the table having the display-name column and
\* at least one numeric column
AllNumericMissing(r) ==
    LET old == LastDrop.before
        numeric == Range(old.columns) \ {"Country Name"}
    IN /\ "Country Name" \in Range(old.columns)
       /\ numeric # {}
       /\ \A c \in numeric : <<r, c>> \in old.null
       /\ <<r, "Country Name">> \notin old.null

\* C4: a row whose numeric fields are all missing (display name present) is
\* removed by dropPoorFeatures(axis=0, p=0.5) and is in the returned labels,
\* for any number N >= 1 of numeric fields.
ClaimC4 ==
    (Dropped /\ LastDrop.axis = 0 /\ LastDrop.p = <<1, 2>>) =>
        \A r \in Range(LastDrop.before.index) :
            AllNumericMissing(r) =>
                (r \in Range(LastDrop.poor_features) /\ r \notin Range(prep_df.index))

\* ------------------------------------------------------------------ claims: clustersTable
Count(s, x) == Cardinality({i \in 1..Len(s) : s[i] = x})

\* the display names of the entities labelled l, in entity-index order
NamesWithLabel(l) ==
    LET idx == SelectSeq([i \in 1..Len(country_names) |-> i],
                         LAMBDA i : labels_arg[i] = l)
    IN [k \in 1..Len(idx) |-> country_names[idx[k]]]

\* C6: clustersTable yields a partition of the entities: one group per distinct
\* label, no group empty, every entity in the group of its own label and in no
\* other, all entities covered (entities counted by occurrence of their name).
InvC6 ==
    table # Unset =>
        LET T == table[1]
        IN /\ {T[g].Cluster : g \in 1..Len(T)} = Range(labels_arg)
           /\ Len(T) = Cardinality(Range(labels_arg))
           /\ \A g \in 1..Len(T) :
                 /\ T[g].members # <<>>
                 /\ Range(T[g].members) \subseteq Range(country_names)
                 /\ \A nm \in Range(country_names) :
                       Count(T[g].members, nm) =
                           Cardinality({j \in 1..Len(country_names) :
                                           /\ country_names[j] = nm
                                           /\ labels_arg[j] = T[g].Cluster})

\* a table of two groups, one of them holding two entities
WitC6 ==
    /\ table # Unset
    /\ Len(table[1]) = 2
    /\ \E g \in 1..2 : Len(table[1][g].members) = 2

\* C7: the table lists the distinct labels in ascending order (the noise label -1
\* included) and, within a label, the display names in entity-index order.
ClaimC7 ==
    table # Unset =>
        LET T == table[1]
        IN /\ \A g, h \in 1..Len(T) : g < h => T[g].Cluster < T[h].Cluster
           /\ \A g \in 1..Len(T) : T[g].members = NamesWithLabel(T[g].Cluster)


\* ------------------------------------------------------------------ claims: the session
ClusteringMethods == {"hierarchicalClustering", "hdbscan", "gaussianMixture",
                      "bayesianGaussianMixture", "gmBIC", "kmeans", "multipleKmeans"}

\* the entry of a results collection under a name: <<table>>, or <<>> when absent
Entry(cl, n) == IF n \in DOMAIN cl THEN <<cl[n]>> ELSE <<>>

Failed == outcome \notin {"ok", "none"}

\* the methods a hierarchicalClustering call runs, as the claims state them
MethodsRun ==
    IF call.method = Str("all")
    THEN <<"average", "complete", "single", "weighted", "centroid", "median", "ward">>
    ELSE call.method.names

\* the run names of the last call, as the claims state them
RunNames ==
    CASE call.name = "hierarchicalClustering" ->
            {"hierarchical_" \o MethodsRun[i] \o "_" \o call.metric : i \in 1..Len(MethodsRun)}
      [] call.name = "hdbscan" -> {"hdbscan"}
      [] call.name = "gaussianMixture" -> {"gm" \o ToString(call.n_components)}
      [] call.name = "bayesianGaussianMixture" ->
            {"bayesian gm" \o ToString(call.n_components)}
      [] call.name = "kmeans" -> {"kmeans" \o ToString(call.n_clusters)}
      [] call.name = "multipleKmeans" ->
            {"kmeans" \o ToString(k) : k \in call.k_min..(call.k_max - 1)}
      [] OTHER -> {}

\* C1: a clustering call with on_PC > 0 made before getPC was ever called fails
\* with PrecomputeRequiredError and stores nothing; once getPC has been called
\* the same call does not fail for that reason.
ClaimC1 ==
    (call.name \in ClusteringMethods /\ call.on_PC > 0) =>
        IF df_pc = Unset
        THEN outcome = "PrecomputeRequiredError" /\ clusterings = before
        ELSE outcome \notin {"PrecomputeRequiredError", "AttributeError"}

\* C2: a failed clustering call leaves the entries under its own run names as
\* they were before the call.
ClaimC2 ==
    (call.name \in ClusteringMethods /\ Failed) =>
        \A n \in RunNames : Entry(clusterings, n) = Entry(before, n)

\* the component count whose BIC is minimal, the first one on ties
BestCount ==
    CHOOSE n \in call.n_min..(call.n_max - 1) :
        /\ \A m \in call.n_min..(call.n_max - 1) :
              call.bics[n - call.n_min + 1] <= call.bics[m - call.n_min + 1]
        /\ \A m \in call.n_min..(n - 1) :
              call.bics[m - call.n_min + 1] # call.bics[n - call.n_min + 1]

\* C5: gmBIC records in min_BIC the component count of [n_min, n_max) whose BIC
\* is minimal (the first on ties) together with that BIC.
ClaimC5 ==
    (call.name = "gmBIC" /\ outcome = "ok") =>
        /\ min_BIC = <<BestCount, call.bics[BestCount - call.n_min + 1]>>
        /\ min_BIC[1] \in call.n_min..(call.n_max - 1)

\* C8: every clustering method takes the full standardized table when on_PC = 0
\* and the first on_PC + 1 score columns (all of them when there are fewer) when
\* on_PC > 0, the entity index being that of the table in both cases.
InvC8 ==
    (call.name \in ClusteringMethods /\ outcome # "AttributeError") =>
        /\ df_used # Unset
        /\ df_used[1].index = SessionIndex
        /\ call.on_PC = 0 =>
              (df_used[1].kind = "df" /\ df_used[1].columns = FeatureNames)
        /\ call.on_PC > 0 =>
              /\ df_used[1].kind = "df_pc"
              /\ df_used[1].columns =
                    [i \in 1..Min(call.on_PC + 1, NComponents) |-> i - 1]

\* a projected call that took a proper prefix of the score columns: on_PC + 1 of
\* them, fewer than there are components
WitC8 ==
    /\ call.name \in ClusteringMethods
    /\ outcome = "ok"
    /\ call.on_PC > 0
    /\ call.on_PC + 1 < NComponents
    /\ df_used[1].columns = [i \in 1..(call.on_PC + 1) |-> i - 1]
    /\ Len(df_pc[1].columns) = NComponents

\* C9: a call changes, adds or removes only entries stored under its own run
\* names; gmBIC and getPC (which have none) leave the collection as it was.
InvC9 ==
    \A n \in (DOMAIN clusterings) \cup (DOMAIN before) :
        Entry(clusterings, n) # Entry(before, n) => n \in RunNames

\* a call that stored under its own name beside an entry of another name, which
\* it left alone
WitC9 ==
    /\ outcome = "ok"
    /\ \E n \in RunNames : Entry(clusterings, n) # Entry(before, n)
    /\ \E n \in (DOMAIN before) \ RunNames : TRUE

\* the flat labels obtained by cutting method met's own linkage over the selected
\* feature space at the call's threshold
CutOf(met) == fcluster(linkage(df_used[1], call.metric, met)[1], call.threshold)

\* the run names of the call's methods, and those of them the collection holds
HierNames ==
    {"hierarchical_" \o MethodsRun[i] \o "_" \o call.metric : i \in 1..Len(MethodsRun)}
HierStored == {n \in DOMAIN clusterings : n \in HierNames}

\* every method run has the groups table of its own cut under its run name
OwnCuts ==
    \A i \in 1..Len(MethodsRun) :
        Entry(clusterings, "hierarchical_" \o MethodsRun[i] \o "_" \o call.metric)
            = <<TableRows(country_names, CutOf(MethodsRun[i]))>>

\* the call left every entry outside its run names as it was
OthersKept ==
    \A n \in ((DOMAIN clusterings) \cup (DOMAIN before)) \ HierNames :
        Entry(clusterings, n) = Entry(before, n)

\* C10 (as stated): a successful hierarchicalClustering call stores exactly one
\* result per method run under hierarchical_<method>_<metric>: one entry for a
\* single name, one entry per element of a list, seven for 'all', each the groups
\* table of that method's own cut.
ClaimC10 ==
    (call.name = "hierarchicalClustering" /\ outcome = "ok") =>
        /\ OwnCuts
        /\ Cardinality(HierStored) = Len(MethodsRun)
        /\ call.method = Str("all") => Cardinality(HierStored) = 7
        /\ ~call.method.list => (call.method = Str("all") \/ Cardinality(HierStored) = 1)

\* C10 (amended): a successful hierarchicalClustering call leaves in the
\* collection, for each method it runs, the groups table of that method's own cut
\* under hierarchical_<method>_<metric>: one entry for a single name, one per
\* distinct element of a list (a repeated name is stored over itself), seven for
\* 'all'; the collection holds these beside the entries it had, which are
\* unchanged.
InvC10 ==
    (call.name = "hierarchicalClustering" /\ outcome = "ok") =>
        /\ OwnCuts
        /\ Cardinality(HierStored) = Cardinality(Range(MethodsRun))
        /\ call.method = Str("all") => Cardinality(HierStored) = 7
        /\ ~call.method.list => (call.method = Str("all") \/ Cardinality(HierStored) = 1)
        /\ DOMAIN clusterings = (DOMAIN before) \cup HierNames
        /\ OthersKept

\* a run over a list that names one method twice, which left a single entry
WitC10 ==
    /\ call.name = "hierarchicalClustering"
    /\ outcome = "ok"
    /\ call.method.list
    /\ Len(MethodsRun) = 2
    /\ Cardinality(Range(MethodsRun)) = 1
    /\ Cardinality(HierStored) = 1
    /\ before = NoEntries

====
